---- MODULE Spec2Model ----
(***************************************************************************)
(* Verification model of vector-db-migration:                              *)
(*   - the SQLite state tracker (internal/state/tracker.go),               *)
(*   - the batch orchestrator and its worker (internal/orchestrator),      *)
(*   - the MCP request pipeline (internal/mcp).                            *)
(* Record ids are the integers 1..NumRecords in the source's natural       *)
(* order; 0 stands for the empty cursor "".                                *)
(***************************************************************************)
EXTENDS Integers, Sequences, FiniteSets, TLC

\* ---------------------------------------------------------------- bounds
NumRecords == 3
MaxStarts == 2
MaxCrashes == 1
\* HTTP requests the server handles in one behaviour
MaxRequests == 2
\* burst handed to NewRateLimiterMiddleware (serve.go uses 20)
Burst == 1
\* concurrent callers of the state tracker, one call each
MaxCallers == 2
\* Register calls made on one ToolRegistry
MaxRegisters == 3
\* goroutines calling Get, List and Execute on the registry
MaxRegCallers == 2
\* SetState / SaveCheckpoint calls made before the store is listed
MaxStoreWrites == 3
\* largest limit a list_migrations client pages with
MaxLimit == 2
\* goroutines calling Server.Start
MaxServerStarts == 2
\* goroutines calling the orchestrator's API at the same time
MaxLockCallers == 2
\* Start calls made on one orchestrator, one worker slot each
MaxLockStarts == 2
\* batches the source holds for one worker
MaxLockBatches == 2

\* ------------------------------------------------------ program constants
DefaultBatchSize == 100
DefaultValidateEvery == 10

StateNotStarted == "not_started"
StateInProgress == "in_progress"
StateCompleted == "completed"
StateRolledBack == "rolled_back"
StateFailed == "failed"

\* row of the migrations table that does not exist
NoRow == "absent"

\* migration ids callers may pass; OwnID is the orchestrator's migrationID
IDs == {"m1", "m2"}
OwnID == "m1"

\* configurations <<BatchSize, ValidateEvery>> handed to Start
\* (0 selects the code's default)
Configs == {<<0, 0>>, <<1, 2>>}

EmptyCursor == 0

\* --max-retries default of the migrate command
DefaultMaxRetries == 3

\* JSON-RPC and pipeline error codes
ParseError == -32700
InvalidRequest == -32600
MethodNotFound == -32601
InternalError == -32603
CodeMissingAuthorization == -32000
CodeInvalidAPIKey == -32001
CodeRateLimitExceeded == -32002
NoCode == 0

\* HTTP status codes
StatusOK == 200
StatusBadRequest == 400
StatusUnauthorized == 401
StatusForbidden == 403
StatusTooManyRequests == 429
NoStatus == 0

\* strings the pipeline slices are sequences of characters
bearerPrefix == <<"B", "e", "a", "r", "e", "r", " ">>
ConfiguredKey == <<"s", "e", "c", "r", "e", "t">>
WrongKey == <<"w", "r", "o", "n", "g">>
Anonymous == <<"a", "n", "o", "n", "y", "m", "o", "u", "s">>
Stars == <<"*", "*", "*", "*">>
KeepLast == 4

HealthPath == "/healthz"
Paths == {"/", HealthPath}
Methods == {"GET", "POST"}
\* values of the Authorization header; <<>> is a request without the header
AuthHeaders == {<<>>, ConfiguredKey, bearerPrefix \o ConfiguredKey, bearerPrefix \o WrongKey}
\* the id of a response that carries "id": null, and of no response yet
NullId == "null"
NoId == ""
\* request bodies. json: the body as a whole is a valid JSON document;
\* value: the body begins with a complete JSON object, whose fields follow
\* (the last body is such an object followed by further characters)
NoJSON == [json |-> FALSE, value |-> FALSE, jsonrpc |-> "", method |-> "", id |-> NoId]
Bodies == {NoJSON,
           [json |-> TRUE, value |-> TRUE, jsonrpc |-> "1.0", method |-> "migration_status", id |-> "7"],
           [json |-> TRUE, value |-> TRUE, jsonrpc |-> "2.0", method |-> "migration_status", id |-> "7"],
           [json |-> TRUE, value |-> TRUE, jsonrpc |-> "2.0", method |-> "no_such_tool", id |-> "7"],
           [json |-> FALSE, value |-> TRUE, jsonrpc |-> "2.0", method |-> "migration_status", id |-> "7"]}
\* tools registered by the serve command
Tools == {"migration_status"}
Requests == 1..MaxRequests

\* callers of the tracker and the arguments they pass
Callers == 1..MaxCallers
MigrationStates == {StateNotStarted, StateInProgress, StateCompleted, StateRolledBack, StateFailed}
IdleCall == [pc |-> "idle", op |-> "", id |-> OwnID, cp |-> 0, st |-> StateNotStarted]

\* ToolRegistry: a nil ToolHandler, the nil *Tool, the tools passed to Register
NilHandler == "nil"
NoTool == [Name |-> "", Handler |-> NilHandler]
ToolArgs == {[Name |-> "", Handler |-> "h1"],
             [Name |-> "a", Handler |-> NilHandler],
             [Name |-> "a", Handler |-> "h1"],
             [Name |-> "a", Handler |-> "h2"],
             [Name |-> "b", Handler |-> "h1"]}
ToolNames == {t.Name : t \in ToolArgs}
RegCallers == 1..MaxRegCallers
IdleExec == [pc |-> "idle", op |-> "", name |-> "", tool |-> NoTool, list |-> {},
             called |-> NilHandler, err |-> FALSE]

\* list_migrations: a zero StartedAt / an absent checkpoints row, the
\* parameters a client may pass, a client that is not paging
NoStartedAt == 0
NoFilter == ""
StatusFilters == {NoFilter, StateInProgress, StateRolledBack, "bogus"}
SortBys == {"created_at", "status", "migration_id"}
SortOrders == {"asc", "desc"}
Limits == 1..MaxLimit
\* mcp.Server: callers of Start, the goroutine each Start launches to wait
\* for its context, a caller of Stop; an unlocked s.mu
Starters == 1..MaxServerStarts
Watcher(t) == t + MaxServerStarts
Watchers == {Watcher(t) : t \in Starters}
Stopper == 0
LifeThreads == Starters \cup Watchers \cup {Stopper}
NoHolder == -1
IdleLife == [pc |-> "idle", ret |-> ""]

\* BaseOrchestrator.mu: its holder is a caller <<"c", i>> or a worker <<"w", i>>
Unlocked == <<>>
LockCallers == 1..MaxLockCallers
CallerId(c) == <<"c", c>>
WorkerId(w) == <<"w", w>>
LockOps == {"Start", "Pause", "Resume", "Stop", "Rollback", "GetStatus"}
IdleLockCall == [op |-> "", pc |-> "idle", slot |-> 0]
IdleLockWorker == [pc |-> "idle", left |-> 0, reason |-> ""]

IdleListing == [active |-> FALSE, status |-> NoFilter, limit |-> 1, sortBy |-> "created_at",
                sortOrder |-> "desc", offset |-> 0, pages |-> <<>>]


VARIABLES
    \* BaseOrchestrator fields
    isRunning, isPaused, ctxCancelled, configSet, batchSize, validateEvery,
    status, totalRecords, migratedRecords, batchesProcessed,
    \* runMigration goroutines, one slot per accepted Start
    workers, nStarts, crashes,
    \* SQLiteTracker tables
    dbState, dbCheckpoint,
    \* target store: ids upserted so far
    target,
    \* Rollback returned success in the current run while a worker was live
    rolledBack,
    \* MCP server: requests in the pipeline, RateLimiterMiddleware.limiters
    \* (tokens per principal), the audit logger's output
    requests, limiters, auditLog,
    \* calls in progress on the SQLiteTracker, one per caller
    calls,
    \* ToolRegistry.tools, the Register calls made and what each returned,
    \* the Get/List/Execute call of each goroutine
    tools, registerLog, execs,
    \* the tracker's tables as list_migrations reads them: the rows of
    \* migrations in created_at order (oldest first), started_at of each
    \* checkpoint row (0: no row), the writes made so far, and a client
    \* paging through list_migrations
    migrations, checkpoints, storeWrites, listing,
    \* mcp.Server: the goroutine holding s.mu, whether s.server is set, the
    \* state of the http.Server, whether the context given to Start is done,
    \* and the calls of Start and Stop in progress
    mu, server, httpServer, serveCtxDone, life,
    \* the migrate command: where runMigrate stands
    monitor,
    \* BaseOrchestrator.mu: the goroutine holding the write lock, the API calls
    \* in progress, the runMigrate goroutines and the Start calls made
    omu, lockCallers, lockWorkers, lockStarts

migrationVars == <<isRunning, isPaused, ctxCancelled, configSet, batchSize, validateEvery,
                   status, totalRecords, migratedRecords, batchesProcessed,
                   workers, nStarts, crashes, dbState, dbCheckpoint, target, rolledBack>>

srvVars == <<requests, limiters, auditLog>>

trkVars == <<calls>>

regVars == <<tools, registerLog, execs>>

listVars == <<migrations, checkpoints, storeWrites, listing>>

lifeVars == <<mu, server, httpServer, serveCtxDone, life>>

cmdVars == <<monitor>>

lockVars == <<omu, lockCallers, lockWorkers, lockStarts>>

vars == <<migrationVars, srvVars, trkVars, regVars, listVars, lifeVars, cmdVars, lockVars>>

orchVars == <<isRunning, isPaused, ctxCancelled, configSet, batchSize, validateEvery,
              status, totalRecords, migratedRecords, batchesProcessed>>

\* ------------------------------------------------------------- helpers
Min(a, b) == IF a < b THEN a ELSE b

FailedStatus(reason) == "failed: " \o reason
FailedStatuses == { FailedStatus(r) : r \in {"failed to get source stats", "failed to get batch",
                                              "failed to map batch", "failed to upsert batch",
                                              "failed to save checkpoint"} }

NoCheckpoint == [present |-> FALSE, last |-> EmptyCursor, total |-> 0, processed |-> 0]
Checkpoint(last, total, processed) ==
    [present |-> TRUE, last |-> last, total |-> total, processed |-> processed]

IdleWorker == [pc |-> "idle", afterID |-> EmptyCursor, batchNum |-> 0, records |-> <<>>,
               reason |-> "", first |-> -1, resume |-> EmptyCursor,
               storeErr |-> FALSE, failWritten |-> FALSE, exit |-> "none",
               lastWritten |-> EmptyCursor, sinceCheckpoint |-> 0]

DoneWorker == [IdleWorker EXCEPT !.pc = "done"]

Live(w) == workers[w].pc \notin {"idle", "done"}
LiveWorkers == { w \in 1..MaxStarts : Live(w) }

\* ------------------------------------------------------- SQLiteTracker
GetState(st, id) == IF st[id] = NoRow THEN StateNotStarted ELSE st[id]

SetState(st, id, s) == [st EXCEPT ![id] = s]

\* SaveCheckpoint runs three statements; "out" names the one that fails
SaveOutcomes(st, id) ==
    {"ok", "errInsert", "errGetState"} \cup
    (IF GetState(st, id) = StateNotStarted THEN {"errSetState"} ELSE {})

SaveCheckpointCp(cps, id, cp, out) ==
    IF out = "errInsert" THEN cps ELSE [cps EXCEPT ![id] = cp]

\* the promotion is applied whatever the current state is
SaveCheckpointState_Always(st, id, out) ==
    IF out = "ok" THEN SetState(st, id, StateInProgress) ELSE st

SaveCheckpointState(st, id, out) ==
    IF out = "ok" /\ GetState(st, id) = StateNotStarted
    THEN SetState(st, id, StateInProgress)
    ELSE st

\* --------------------------------------------------------- Database port
GetBatch(afterID, limit) ==
    [i \in 1..Min(limit, NumRecords - afterID) |-> afterID + i]

EffectiveBatchSize(bs) == IF bs = 0 THEN DefaultBatchSize ELSE bs
EffectiveValidateEvery(ve) == IF ve = 0 THEN DefaultValidateEvery ELSE ve

\* outcomes of a call that takes o.ctx: it fails once the context is cancelled
IOOutcomes == IF ctxCancelled THEN {"err"} ELSE {"ok", "err"}

\* a request slot before the request arrives
NewRequest == [pc |-> "new", path |-> "/", method |-> "GET", auth |-> <<>>,
               body |-> NoJSON,
               apiKey |-> <<>>, status |-> NoStatus, code |-> NoCode, ran |-> "",
               respId |-> NoId]

Init ==
    /\ isRunning = FALSE
    /\ isPaused = FALSE
    /\ ctxCancelled = FALSE
    /\ configSet = FALSE
    /\ batchSize = 0
    /\ validateEvery = 0
    /\ status = "not_started"
    /\ totalRecords = 0
    /\ migratedRecords = 0
    /\ batchesProcessed = 0
    /\ workers = [w \in 1..MaxStarts |-> IdleWorker]
    /\ nStarts = 0
    /\ crashes = 0
    /\ dbState = [id \in IDs |-> NoRow]
    /\ dbCheckpoint = [id \in IDs |-> NoCheckpoint]
    /\ target = {}
    /\ rolledBack = FALSE
    /\ requests = [r \in Requests |-> NewRequest]
    /\ limiters = <<>>
    /\ auditLog = <<>>
    /\ calls = [c \in Callers |-> IdleCall]
    /\ tools = <<>>
    /\ registerLog = <<>>
    /\ execs = [c \in RegCallers |-> IdleExec]
    /\ migrations = <<>>
    /\ checkpoints = [id \in IDs |-> NoStartedAt]
    /\ storeWrites = 0
    /\ listing = IdleListing
    /\ mu = NoHolder
    /\ server = FALSE
    /\ httpServer = "none"
    /\ serveCtxDone = FALSE
    /\ life = [t \in LifeThreads |-> IdleLife]
    /\ monitor = [pc |-> "init", seen |-> ""]
    /\ omu = Unlocked
    /\ lockCallers = [c \in LockCallers |-> IdleLockCall]
    /\ lockWorkers = [w \in 1..MaxLockStarts |-> IdleLockWorker]
    /\ lockStarts = 0

\* --------------------------------------------------------- orchestrator
\* the upsert's error is dropped and the batch counted as written
AfterUpsert_IgnoresError(out) == "progress"

\* runMigration, lines 130-133: where the worker goes after UpsertBatch returned
AfterUpsert(out) == IF out = "ok" THEN "progress" ELSE "fail"

\* the cursor is left where it was
NextCursor_Stale(recs, afterID) == afterID

\* runMigration, lines 139-141: the cursor after a batch
NextCursor(recs, afterID) == IF Len(recs) > 0 THEN recs[Len(recs)] ELSE afterID

\* a loop that skips the checkpoint of the first batch
CheckpointDue_SkipsFirst(batchNum, ve) ==
    batchNum > 0 /\ batchNum % EffectiveValidateEvery(ve) = 0

\* runMigration, line 149: whether this batch's checkpoint is due
CheckpointDue(batchNum, ve) == batchNum % EffectiveValidateEvery(ve) = 0

\* Start, lines 35-69
Start(bs, ve) ==
    /\ ~isRunning
    /\ nStarts < MaxStarts
    /\ configSet => (bs = batchSize /\ ve = validateEvery)
    /\ \E out \in SaveOutcomes(dbState, OwnID) :
        /\ batchSize' = bs
        /\ validateEvery' = ve
        /\ configSet' = TRUE
        /\ ctxCancelled' = FALSE
        /\ isRunning' = TRUE
        /\ isPaused' = FALSE
        /\ status' = "in_progress"
        /\ totalRecords' = 0
        /\ migratedRecords' = 0
        /\ batchesProcessed' = 0
        /\ dbCheckpoint' = SaveCheckpointCp(dbCheckpoint, OwnID, Checkpoint(EmptyCursor, 0, 0), out)
        /\ dbState' = SaveCheckpointState(dbState, OwnID, out)
        /\ IF out = "ok"
           THEN /\ nStarts' = nStarts + 1
                /\ workers' = [workers EXCEPT ![nStarts + 1] =
                       [IdleWorker EXCEPT !.pc = "stats",
                                          !.resume = dbCheckpoint[OwnID].last]]
           ELSE UNCHANGED <<nStarts, workers>>
        /\ rolledBack' = FALSE
    /\ UNCHANGED <<crashes, target>>
    /\ UNCHANGED <<srvVars, trkVars, regVars, listVars, lifeVars, cmdVars, lockVars>>

\* Pause, lines 173-189
Pause(id) ==
    /\ id = OwnID
    /\ isRunning
    /\ isPaused' = TRUE
    /\ status' = "paused"
    /\ UNCHANGED <<isRunning, ctxCancelled, configSet, batchSize, validateEvery,
                   totalRecords, migratedRecords, batchesProcessed,
                   workers, nStarts, crashes, dbState, dbCheckpoint, target, rolledBack>>
    /\ UNCHANGED <<srvVars, trkVars, regVars, listVars, lifeVars, cmdVars, lockVars>>

\* Resume, lines 192-208
Resume(id) ==
    /\ id = OwnID
    /\ isPaused
    /\ isPaused' = FALSE
    /\ status' = "in_progress"
    /\ UNCHANGED <<isRunning, ctxCancelled, configSet, batchSize, validateEvery,
                   totalRecords, migratedRecords, batchesProcessed,
                   workers, nStarts, crashes, dbState, dbCheckpoint, target, rolledBack>>
    /\ UNCHANGED <<srvVars, trkVars, regVars, listVars, lifeVars, cmdVars, lockVars>>

\* Stop, lines 211-228
Stop(id) ==
    /\ id = OwnID
    /\ isRunning
    /\ ctxCancelled' = TRUE
    /\ status' = "stopped"
    /\ isRunning' = FALSE
    /\ UNCHANGED <<isPaused, configSet, batchSize, validateEvery,
                   totalRecords, migratedRecords, batchesProcessed,
                   workers, nStarts, crashes, dbState, dbCheckpoint, target, rolledBack>>
    /\ UNCHANGED <<srvVars, trkVars, regVars, listVars, lifeVars, cmdVars, lockVars>>

\* Rollback, lines 231-244; the id is not compared with migrationID, and
\* o.config.StateTracker is nil (a panic) before the first Start
Rollback(id) ==
    /\ configSet
    /\ status' = "rolled_back"
    /\ \E ok \in BOOLEAN :
        /\ dbState' = IF ok THEN SetState(dbState, id, StateRolledBack) ELSE dbState
        /\ rolledBack' = (rolledBack \/ (ok /\ id = OwnID /\ LiveWorkers # {}))
    /\ UNCHANGED <<isRunning, isPaused, ctxCancelled, configSet, batchSize, validateEvery,
                   totalRecords, migratedRecords, batchesProcessed,
                   workers, nStarts, crashes, dbCheckpoint, target>>
    /\ UNCHANGED <<srvVars, trkVars, regVars, listVars, lifeVars, cmdVars, lockVars>>

\* ------------------------------------------------------- runMigration
SetWorker(w, f) == workers' = [workers EXCEPT ![w] = f]

ToFail(w, reason) == [workers[w] EXCEPT !.pc = "fail", !.reason = reason]

\* lines 80-85: SourceDB.GetStats
WorkerGetStats(w) ==
    /\ workers[w].pc = "stats"
    /\ \E out \in IOOutcomes :
        IF out = "ok"
        THEN SetWorker(w, [workers[w] EXCEPT !.pc = "setTotal"])
        ELSE SetWorker(w, ToFail(w, "failed to get source stats"))
    /\ UNCHANGED <<orchVars, nStarts, crashes, dbState, dbCheckpoint, target, rolledBack>>
    /\ UNCHANGED <<srvVars, trkVars, regVars, listVars, lifeVars, cmdVars, lockVars>>

\* lines 87-93
WorkerSetTotal(w) ==
    /\ workers[w].pc = "setTotal"
    /\ totalRecords' = NumRecords
    /\ SetWorker(w, [workers[w] EXCEPT !.pc = "check", !.batchNum = 0, !.afterID = EmptyCursor])
    /\ UNCHANGED <<isRunning, isPaused, ctxCancelled, configSet, batchSize, validateEvery,
                   status, migratedRecords, batchesProcessed,
                   nStarts, crashes, dbState, dbCheckpoint, target, rolledBack>>
    /\ UNCHANGED <<srvVars, trkVars, regVars, listVars, lifeVars, cmdVars, lockVars>>

\* lines 96-102: the check at the top of the batch loop
WorkerCheck(w) ==
    /\ workers[w].pc = "check"
    /\ IF isPaused \/ ctxCancelled
       THEN SetWorker(w, [workers[w] EXCEPT !.pc = "defer", !.exit = "interrupted"])
       ELSE SetWorker(w, [workers[w] EXCEPT !.pc = "getBatch"])
    /\ UNCHANGED <<orchVars, nStarts, crashes, dbState, dbCheckpoint, target, rolledBack>>
    /\ UNCHANGED <<srvVars, trkVars, regVars, listVars, lifeVars, cmdVars, lockVars>>

\* lines 104-120: SourceDB.GetBatch and the end-of-stream test
WorkerGetBatch(w) ==
    /\ workers[w].pc = "getBatch"
    /\ \E out \in IOOutcomes :
        LET recs == GetBatch(workers[w].afterID, EffectiveBatchSize(batchSize))
            seen == [workers[w] EXCEPT !.first = IF @ = -1 THEN workers[w].afterID ELSE @]
        IN IF out = "ok"
           THEN SetWorker(w, [seen EXCEPT !.records = recs,
                                          !.pc = IF Len(recs) = 0 THEN "complete" ELSE "map"])
           ELSE SetWorker(w, [seen EXCEPT !.pc = "fail", !.reason = "failed to get batch"])
    /\ UNCHANGED <<orchVars, nStarts, crashes, dbState, dbCheckpoint, target, rolledBack>>
    /\ UNCHANGED <<srvVars, trkVars, regVars, listVars, lifeVars, cmdVars, lockVars>>

\* lines 122-127: SchemaMapper.MapBatch; ids pass through (mapper/base.go:85)
WorkerMap(w) ==
    /\ workers[w].pc = "map"
    /\ \E out \in {"ok", "err"} :
        IF out = "ok"
        THEN SetWorker(w, [workers[w] EXCEPT !.pc = "upsert"])
        ELSE SetWorker(w, ToFail(w, "failed to map batch"))
    /\ UNCHANGED <<orchVars, nStarts, crashes, dbState, dbCheckpoint, target, rolledBack>>
    /\ UNCHANGED <<srvVars, trkVars, regVars, listVars, lifeVars, cmdVars, lockVars>>

\* lines 129-133: TargetDB.UpsertBatch
WorkerUpsert(w) ==
    /\ workers[w].pc = "upsert"
    /\ \E out \in IOOutcomes :
        /\ target' = IF out = "ok"
                     THEN target \cup { workers[w].records[i] : i \in 1..Len(workers[w].records) }
                     ELSE target
        /\ SetWorker(w, [workers[w] EXCEPT !.pc = AfterUpsert(out),
                                           !.reason = IF out = "ok" THEN @ ELSE "failed to upsert batch",
                                           !.lastWritten = IF out = "ok"
                                                           THEN workers[w].records[Len(workers[w].records)]
                                                           ELSE @,
                                           !.sinceCheckpoint = IF out = "ok" THEN @ + 1 ELSE @])
    /\ UNCHANGED <<orchVars, nStarts, crashes, dbState, dbCheckpoint, rolledBack>>
    /\ UNCHANGED <<srvVars, trkVars, regVars, listVars, lifeVars, cmdVars, lockVars>>

\* lines 135-168: progress counters and the periodic checkpoint, under o.mu
WorkerProgress(w) ==
    /\ workers[w].pc = "progress"
    /\ LET recs == workers[w].records
           newAfter == NextCursor(recs, workers[w].afterID)
           migrated == migratedRecords + Len(recs)
       IN /\ batchesProcessed' = batchesProcessed + 1
          /\ migratedRecords' = migrated
          /\ IF CheckpointDue(workers[w].batchNum, validateEvery)
             THEN \E out \in SaveOutcomes(dbState, OwnID) :
                    /\ dbCheckpoint' = SaveCheckpointCp(dbCheckpoint, OwnID,
                                          Checkpoint(newAfter, totalRecords, migrated), out)
                    /\ dbState' = SaveCheckpointState(dbState, OwnID, out)
                    /\ IF out = "ok"
                       THEN SetWorker(w, [workers[w] EXCEPT !.afterID = newAfter, !.records = <<>>,
                                             !.batchNum = @ + 1, !.pc = "check",
                                             !.sinceCheckpoint = 0])
                       ELSE SetWorker(w, [workers[w] EXCEPT !.afterID = newAfter, !.records = <<>>,
                                             !.pc = "fail", !.storeErr = TRUE,
                                             !.reason = "failed to save checkpoint"])
             ELSE /\ SetWorker(w, [workers[w] EXCEPT !.afterID = newAfter, !.records = <<>>,
                                      !.batchNum = @ + 1, !.pc = "check"])
                  /\ UNCHANGED <<dbCheckpoint, dbState>>
    /\ UNCHANGED <<isRunning, isPaused, ctxCancelled, configSet, batchSize, validateEvery,
                   status, totalRecords, nStarts, crashes, target, rolledBack>>
    /\ UNCHANGED <<srvVars, trkVars, regVars, listVars, lifeVars, cmdVars, lockVars>>

\* complete, lines 276-296; both tracker results are discarded
WorkerComplete(w) ==
    /\ workers[w].pc = "complete"
    /\ status' = "completed"
    /\ isRunning' = FALSE
    /\ \E out \in SaveOutcomes(dbState, OwnID), ok \in BOOLEAN :
        LET st1 == SaveCheckpointState(dbState, OwnID, out)
        IN /\ dbCheckpoint' = SaveCheckpointCp(dbCheckpoint, OwnID,
                                 Checkpoint(EmptyCursor, totalRecords, migratedRecords), out)
           /\ dbState' = IF ok THEN SetState(st1, OwnID, StateCompleted) ELSE st1
           /\ SetWorker(w, [workers[w] EXCEPT !.pc = "defer", !.exit = "completed",
                               !.storeErr = @ \/ out # "ok" \/ ~ok])
    /\ UNCHANGED <<isPaused, ctxCancelled, configSet, batchSize, validateEvery,
                   totalRecords, migratedRecords, batchesProcessed, nStarts, crashes, target,
                   rolledBack>>
    /\ UNCHANGED <<srvVars, trkVars, regVars, listVars, lifeVars, cmdVars, lockVars>>

\* fail, lines 299-308; the tracker result is discarded
WorkerFail(w) ==
    /\ workers[w].pc = "fail"
    /\ status' = FailedStatus(workers[w].reason)
    /\ isRunning' = FALSE
    /\ \E ok \in BOOLEAN :
        /\ dbState' = IF ok THEN SetState(dbState, OwnID, StateFailed) ELSE dbState
        /\ SetWorker(w, [workers[w] EXCEPT !.pc = "defer", !.exit = "failed",
                            !.failWritten = ok])
    /\ UNCHANGED <<isPaused, ctxCancelled, configSet, batchSize, validateEvery,
                   totalRecords, migratedRecords, batchesProcessed,
                   nStarts, crashes, dbCheckpoint, target, rolledBack>>
    /\ UNCHANGED <<srvVars, trkVars, regVars, listVars, lifeVars, cmdVars, lockVars>>

\* the deferred function of runMigration, lines 73-78
WorkerDefer(w) ==
    /\ workers[w].pc = "defer"
    /\ isRunning' = FALSE
    /\ ctxCancelled' = TRUE
    /\ SetWorker(w, DoneWorker)
    /\ UNCHANGED <<isPaused, configSet, batchSize, validateEvery,
                   status, totalRecords, migratedRecords, batchesProcessed,
                   nStarts, crashes, dbState, dbCheckpoint, target, rolledBack>>
    /\ UNCHANGED <<srvVars, trkVars, regVars, listVars, lifeVars, cmdVars, lockVars>>

\* the process dies and a new one builds its orchestrator (NewBaseOrchestrator,
\* lines 25-32); the tracker's file and the target survive
Crash ==
    /\ crashes < MaxCrashes
    /\ nStarts > 0
    /\ nStarts < MaxStarts
    /\ crashes' = crashes + 1
    /\ isRunning' = FALSE
    /\ isPaused' = FALSE
    /\ ctxCancelled' = FALSE
    /\ configSet' = FALSE
    /\ batchSize' = 0
    /\ validateEvery' = 0
    /\ status' = "not_started"
    /\ totalRecords' = 0
    /\ migratedRecords' = 0
    /\ batchesProcessed' = 0
    /\ workers' = [w \in 1..MaxStarts |-> IF Live(w) THEN DoneWorker ELSE workers[w]]
    /\ rolledBack' = FALSE
    /\ UNCHANGED <<nStarts, dbState, dbCheckpoint, target>>
    /\ UNCHANGED <<srvVars, trkVars, regVars, listVars, lifeVars, cmdVars, lockVars>>

Next ==
    \/ \E c \in Configs : Start(c[1], c[2])
    \/ \E id \in IDs : Pause(id)
    \/ \E id \in IDs : Resume(id)
    \/ \E id \in IDs : Stop(id)
    \/ \E id \in IDs : Rollback(id)
    \/ \E w \in 1..MaxStarts : WorkerGetStats(w)
    \/ \E w \in 1..MaxStarts : WorkerSetTotal(w)
    \/ \E w \in 1..MaxStarts : WorkerCheck(w)
    \/ \E w \in 1..MaxStarts : WorkerGetBatch(w)
    \/ \E w \in 1..MaxStarts : WorkerMap(w)
    \/ \E w \in 1..MaxStarts : WorkerUpsert(w)
    \/ \E w \in 1..MaxStarts : WorkerProgress(w)
    \/ \E w \in 1..MaxStarts : WorkerComplete(w)
    \/ \E w \in 1..MaxStarts : WorkerFail(w)
    \/ \E w \in 1..MaxStarts : WorkerDefer(w)
    \/ Crash

Spec == Init /\ [][Next]_vars

\* ------------------------------------------------- runs without faults
\* The orchestrator in an environment where no source, target or state-store
\* call fails of its own and nobody calls Pause, Stop or Rollback; a call
\* that takes o.ctx still fails once the orchestrator has cancelled o.ctx.
CallSucceeds(w) ==
    /\ workers'[w].pc = "fail" => ctxCancelled
    /\ ~workers'[w].storeErr

NextNoFault ==
    \/ \E c \in Configs : Start(c[1], c[2]) /\ nStarts' = nStarts + 1
    \/ \E w \in 1..MaxStarts : WorkerGetStats(w) /\ CallSucceeds(w)
    \/ \E w \in 1..MaxStarts : WorkerSetTotal(w)
    \/ \E w \in 1..MaxStarts : WorkerCheck(w)
    \/ \E w \in 1..MaxStarts : WorkerGetBatch(w) /\ CallSucceeds(w)
    \/ \E w \in 1..MaxStarts : WorkerMap(w) /\ workers'[w].pc # "fail"
    \/ \E w \in 1..MaxStarts : WorkerUpsert(w) /\ CallSucceeds(w)
    \/ \E w \in 1..MaxStarts : WorkerProgress(w) /\ CallSucceeds(w)
    \/ \E w \in 1..MaxStarts : WorkerComplete(w) /\ CallSucceeds(w)
    \/ \E w \in 1..MaxStarts : WorkerFail(w) /\ workers'[w].failWritten
    \/ \E w \in 1..MaxStarts : WorkerDefer(w)

SpecNoFault == Init /\ [][NextNoFault]_vars

\* ------------------------------------------------------------ MCP server
\* the header is taken as the key, whatever its form
extractAPIKey_Raw(auth) == auth

\* extractAPIKey, auth.go lines 50-64
extractAPIKey(auth) ==
    IF auth = <<>> THEN <<>>
    ELSE IF Len(auth) > Len(bearerPrefix) /\ SubSeq(auth, 1, Len(bearerPrefix)) = bearerPrefix
         THEN SubSeq(auth, Len(bearerPrefix) + 1, Len(auth))
         ELSE auth

\* maskString, audit.go lines 62-67
maskString(s, keepLast) ==
    IF Len(s) <= keepLast THEN Stars
    ELSE Stars \o SubSeq(s, Len(s) - keepLast + 1, Len(s))

\* the principal the rate limiter charges, ratelimit.go lines 32-36
Principal(apiKey) == IF apiKey = <<>> THEN Anonymous ELSE apiKey

\* every request gets a new, full bucket
getLimiter_Fresh(lims, k) == [x \in DOMAIN lims \cup {k} |-> IF x = k THEN Burst ELSE lims[x]]

\* getLimiter, ratelimit.go lines 52-63: a new bucket starts with burst tokens
getLimiter(lims, k) ==
    IF k \in DOMAIN lims THEN lims
    ELSE [x \in DOMAIN lims \cup {k} |-> IF x = k THEN Burst ELSE lims[x]]

SetRequest(r, f) == requests' = [requests EXCEPT ![r] = f]

Reject(r, st, code) ==
    [requests[r] EXCEPT !.pc = "done", !.status = st, !.code = code, !.respId = NullId]

\* json.NewDecoder(r.Body).Decode(&req), part_000 line 369: the decoder reads
\* the first JSON value of the body and does not look at what follows it
Decode(body) == body.value

\* a client sends a request; the outermost handler of the chain is the
\* authentication middleware (Server.Start, lines 291-309)
Arrive(r, path, method, auth, body) ==
    /\ requests[r].pc = "new"
    /\ SetRequest(r, [requests[r] EXCEPT !.pc = "auth", !.path = path, !.method = method,
                                        !.auth = auth, !.body = body])
    /\ UNCHANGED <<trkVars, regVars, listVars, lifeVars, cmdVars, lockVars, migrationVars, limiters, auditLog>>

\* AuthMiddleware.Middleware, auth.go lines 22-47
AuthMiddleware(r) ==
    /\ requests[r].pc = "auth"
    /\ LET apiKey == extractAPIKey(requests[r].auth)
       IN IF requests[r].path = HealthPath
          THEN SetRequest(r, [requests[r] EXCEPT !.pc = "rate"])
          ELSE IF apiKey = <<>>
          THEN SetRequest(r, Reject(r, StatusUnauthorized, CodeMissingAuthorization))
          ELSE IF apiKey # ConfiguredKey
          THEN SetRequest(r, Reject(r, StatusForbidden, CodeInvalidAPIKey))
          ELSE SetRequest(r, [requests[r] EXCEPT !.pc = "rate", !.apiKey = apiKey])
    /\ UNCHANGED <<trkVars, regVars, listVars, lifeVars, cmdVars, lockVars, migrationVars, limiters, auditLog>>

\* RateLimiterMiddleware.Middleware, ratelimit.go lines 29-49
RateLimiterMiddleware(r) ==
    /\ requests[r].pc = "rate"
    /\ LET k == Principal(requests[r].apiKey)
           lims == getLimiter(limiters, k)
       IN IF lims[k] > 0
          THEN /\ limiters' = [lims EXCEPT ![k] = @ - 1]
               /\ SetRequest(r, [requests[r] EXCEPT !.pc = "audit"])
          ELSE /\ limiters' = lims
               /\ SetRequest(r, Reject(r, StatusTooManyRequests, CodeRateLimitExceeded))
    /\ UNCHANGED <<trkVars, regVars, listVars, lifeVars, cmdVars, lockVars, migrationVars, auditLog>>

\* time passes and the limiter of principal k regains a token
Refill(k) ==
    /\ k \in DOMAIN limiters
    /\ limiters[k] < Burst
    /\ limiters' = [limiters EXCEPT ![k] = @ + 1]
    /\ UNCHANGED <<trkVars, regVars, listVars, lifeVars, cmdVars, lockVars, migrationVars, requests, auditLog>>

\* AuditMiddleware.Middleware, audit.go lines 25-35: the request entry
AuditRequest(r) ==
    /\ requests[r].pc = "audit"
    /\ auditLog' = Append(auditLog, [kind |-> "request", req |-> r,
                                     key |-> maskString(requests[r].apiKey, KeepLast),
                                     status |-> NoStatus])
    /\ SetRequest(r, [requests[r] EXCEPT !.pc = "handle", !.status = StatusOK])
    /\ UNCHANGED <<trkVars, regVars, listVars, lifeVars, cmdVars, lockVars, migrationVars, limiters>>

\* Server.handleRequest, lines 360-389, reached for every path through the
\* mux pattern "/" (line 291); ToolRegistry.Execute, registry.go lines 81-88
handleRequest(r) ==
    /\ requests[r].pc = "handle"
    /\ LET req == requests[r]
           err(id, code) == [req EXCEPT !.pc = "auditEnd", !.status = StatusBadRequest,
                                        !.code = code, !.respId = id]
       IN IF req.method # "POST" THEN SetRequest(r, err(NullId, InvalidRequest))
          ELSE IF ~Decode(req.body) THEN SetRequest(r, err(NullId, ParseError))
          ELSE IF req.body.jsonrpc # "2.0" THEN SetRequest(r, err(req.body.id, InvalidRequest))
          ELSE IF req.body.method \notin Tools THEN SetRequest(r, err(req.body.id, InternalError))
          ELSE \E ok \in BOOLEAN :
                 IF ok
                 THEN SetRequest(r, [req EXCEPT !.pc = "auditEnd", !.ran = req.body.method,
                                                !.respId = req.body.id])
                 ELSE SetRequest(r, [err(req.body.id, InternalError) EXCEPT !.ran = req.body.method])
    /\ UNCHANGED <<trkVars, regVars, listVars, lifeVars, cmdVars, lockVars, migrationVars, limiters, auditLog>>

\* AuditMiddleware.Middleware, audit.go lines 43-46: the response entry
AuditResponse(r) ==
    /\ requests[r].pc = "auditEnd"
    /\ auditLog' = Append(auditLog, [kind |-> "response", req |-> r,
                                     key |-> <<>>, status |-> requests[r].status])
    /\ SetRequest(r, [requests[r] EXCEPT !.pc = "done"])
    /\ UNCHANGED <<trkVars, regVars, listVars, lifeVars, cmdVars, lockVars, migrationVars, limiters>>

NextServer ==
    \/ \E r \in Requests, path \in Paths, method \in Methods,
          auth \in AuthHeaders, body \in Bodies : Arrive(r, path, method, auth, body)
    \/ \E r \in Requests : AuthMiddleware(r)
    \/ \E r \in Requests : RateLimiterMiddleware(r)
    \/ \E k \in {ConfiguredKey, Anonymous} : Refill(k)
    \/ \E r \in Requests : AuditRequest(r)
    \/ \E r \in Requests : handleRequest(r)
    \/ \E r \in Requests : AuditResponse(r)

SpecServer == Init /\ [][NextServer]_vars

\* ------------------------------------------- SQLiteTracker, statement by statement
\* Callers that share one tracker each make one call; every statement is one
\* t.db.Exec or QueryRow and may return an error.
notTables == <<isRunning, isPaused, ctxCancelled, configSet, batchSize, validateEvery,
               status, totalRecords, migratedRecords, batchesProcessed,
               workers, nStarts, crashes, target, rolledBack, srvVars, regVars, listVars, lifeVars, cmdVars, lockVars>>

SetCall(c, f) == calls' = [calls EXCEPT ![c] = f]

\* SaveCheckpoint is entered, tracker.go line 173
CallSaveCheckpoint(c, id, processed) ==
    /\ calls[c].pc = "idle"
    /\ SetCall(c, [calls[c] EXCEPT !.pc = "insert", !.op = "SaveCheckpoint", !.id = id, !.cp = processed])
    /\ UNCHANGED <<dbState, dbCheckpoint, notTables>>

\* SetState is entered, tracker.go line 134
CallSetState(c, id, st) ==
    /\ calls[c].pc = "idle"
    /\ SetCall(c, [calls[c] EXCEPT !.pc = "exec", !.op = "SetState", !.id = id, !.st = st])
    /\ UNCHANGED <<dbState, dbCheckpoint, notTables>>

\* SaveCheckpoint, lines 179-190: the checkpoint upsert
TrackerInsert(c) ==
    /\ calls[c].pc = "insert"
    /\ \E ok \in BOOLEAN :
        IF ok
        THEN /\ dbCheckpoint' = SaveCheckpointCp(dbCheckpoint, calls[c].id,
                                    Checkpoint(calls[c].cp, NumRecords, calls[c].cp), "ok")
             /\ SetCall(c, [calls[c] EXCEPT !.pc = "getState"])
        ELSE /\ SetCall(c, [calls[c] EXCEPT !.pc = "error"])
             /\ UNCHANGED dbCheckpoint
    /\ UNCHANGED <<dbState, notTables>>

\* SaveCheckpoint, lines 192-196: the state is read
TrackerGetState(c) ==
    /\ calls[c].pc = "getState"
    /\ \E ok \in BOOLEAN :
        IF ok
        THEN SetCall(c, [calls[c] EXCEPT !.pc = IF GetState(dbState, calls[c].id) = StateNotStarted
                                                THEN "promote" ELSE "ok"])
        ELSE SetCall(c, [calls[c] EXCEPT !.pc = "error"])
    /\ UNCHANGED <<dbState, dbCheckpoint, notTables>>

\* SaveCheckpoint, lines 197-201: the promotion decided on the state read before
TrackerPromote(c) ==
    /\ calls[c].pc = "promote"
    /\ \E ok \in BOOLEAN :
        IF ok
        THEN /\ dbState' = SetState(dbState, calls[c].id, StateInProgress)
             /\ SetCall(c, [calls[c] EXCEPT !.pc = "ok"])
        ELSE /\ SetCall(c, [calls[c] EXCEPT !.pc = "error"])
             /\ UNCHANGED dbState
    /\ UNCHANGED <<dbCheckpoint, notTables>>

\* SetState, lines 134-149
TrackerSetState(c) ==
    /\ calls[c].pc = "exec"
    /\ \E ok \in BOOLEAN :
        IF ok
        THEN /\ dbState' = SetState(dbState, calls[c].id, calls[c].st)
             /\ SetCall(c, [calls[c] EXCEPT !.pc = "ok"])
        ELSE /\ SetCall(c, [calls[c] EXCEPT !.pc = "error"])
             /\ UNCHANGED dbState
    /\ UNCHANGED <<dbCheckpoint, notTables>>

NextTracker ==
    \/ \E c \in Callers, id \in IDs, n \in 1..NumRecords : CallSaveCheckpoint(c, id, n)
    \/ \E c \in Callers, id \in IDs, st \in MigrationStates : CallSetState(c, id, st)
    \/ \E c \in Callers : TrackerInsert(c)
    \/ \E c \in Callers : TrackerGetState(c)
    \/ \E c \in Callers : TrackerPromote(c)
    \/ \E c \in Callers : TrackerSetState(c)

SpecTracker == Init /\ [][NextTracker]_vars

\* ------------------------------------------------------------ ToolRegistry
\* Register's three checks, made under r.mu.Lock()
RegisterErr_NoDuplicateCheck(ts, tool) ==
    tool.Name = "" \/ tool.Handler = NilHandler

RegisterErr(ts, tool) ==
    \/ tool.Name = ""
    \/ tool.Handler = NilHandler
    \/ tool.Name \in DOMAIN ts

\* r.tools[tool.Name] = tool, reached only when no check failed
RegisterTools(ts, tool) ==
    IF RegisterErr(ts, tool)
    THEN ts
    ELSE [n \in DOMAIN ts \cup {tool.Name} |-> IF n = tool.Name THEN tool ELSE ts[n]]

GetTool(ts, name) == IF name \in DOMAIN ts THEN ts[name] ELSE NoTool
GetErr(ts, name) == name \notin DOMAIN ts

CanCall(c) == execs[c].pc \in {"idle", "ret"}

Register(tool) ==
    /\ Len(registerLog) < MaxRegisters
    /\ tools' = RegisterTools(tools, tool)
    /\ registerLog' = Append(registerLog, [tool |-> tool, err |-> RegisterErr(tools, tool)])
    /\ UNCHANGED <<execs, migrationVars, srvVars, trkVars, listVars, lifeVars, cmdVars, lockVars>>

Get(c, name) ==
    /\ CanCall(c)
    /\ execs' = [execs EXCEPT ![c] = [IdleExec EXCEPT !.pc = "ret", !.op = "Get", !.name = name,
                                                      !.tool = GetTool(tools, name),
                                                      !.err = GetErr(tools, name)]]
    /\ UNCHANGED <<tools, registerLog, migrationVars, srvVars, trkVars, listVars, lifeVars, cmdVars, lockVars>>

List(c) ==
    /\ CanCall(c)
    /\ execs' = [execs EXCEPT ![c] = [IdleExec EXCEPT !.pc = "ret", !.op = "List",
                                                      !.list = {tools[n] : n \in DOMAIN tools}]]
    /\ UNCHANGED <<tools, registerLog, migrationVars, srvVars, trkVars, listVars, lifeVars, cmdVars, lockVars>>

\* Execute: r.Get(name) under the read lock ...
ExecuteGet(c, name) ==
    /\ CanCall(c)
    /\ execs' = [execs EXCEPT ![c] = [IdleExec EXCEPT !.pc = IF GetErr(tools, name) THEN "ret" ELSE "got",
                                                      !.op = "Execute", !.name = name,
                                                      !.tool = GetTool(tools, name),
                                                      !.err = GetErr(tools, name)]]
    /\ UNCHANGED <<tools, registerLog, migrationVars, srvVars, trkVars, listVars, lifeVars, cmdVars, lockVars>>

\* ... then tool.Handler(ctx, params) after the lock is released
ExecuteHandler(c) ==
    /\ execs[c].pc = "got"
    /\ execs' = [execs EXCEPT ![c].pc = "ret", ![c].called = execs[c].tool.Handler]
    /\ UNCHANGED <<tools, registerLog, migrationVars, srvVars, trkVars, listVars, lifeVars, cmdVars, lockVars>>

NextRegistry ==
    \/ \E tool \in ToolArgs : Register(tool)
    \/ \E c \in RegCallers, name \in ToolNames : Get(c, name)
    \/ \E c \in RegCallers : List(c)
    \/ \E c \in RegCallers, name \in ToolNames : ExecuteGet(c, name)
    \/ \E c \in RegCallers : ExecuteHandler(c)

SpecRegistry == Init /\ [][NextRegistry]_vars

\* -------------------------------------------------------- list_migrations
\* byte order of the strings that sort.Slice compares
IdRank(id) == IF id = "m1" THEN 1 ELSE 2
StatusRank(st) ==
    CASE st = "" -> 0
      [] st = StateCompleted -> 1
      [] st = StateFailed -> 2
      [] st = StateInProgress -> 3
      [] st = StateNotStarted -> 4
      [] st = StateRolledBack -> 5

HasRow(rows, id) == \E i \in 1..Len(rows) : rows[i].id = id

\* SQLiteTracker.GetState on the migrations table
RowState(rows, id) ==
    IF HasRow(rows, id)
    THEN rows[CHOOSE i \in 1..Len(rows) : rows[i].id = id].state
    ELSE StateNotStarted

\* SQLiteTracker.SetState: insert, or update the state of the existing row
UpsertState(rows, id, st) ==
    IF HasRow(rows, id)
    THEN [i \in 1..Len(rows) |-> IF rows[i].id = id THEN [rows[i] EXCEPT !.state = st] ELSE rows[i]]
    ELSE Append(rows, [id |-> id, state |-> st])

Reverse(s) == [i \in 1..Len(s) |-> s[Len(s) + 1 - i]]

\* SELECT migration_id FROM migrations [WHERE state = ?]
\* ORDER BY created_at DESC LIMIT ? OFFSET ?
ListMigrations(rows, statusFilter, limit, offset) ==
    LET Matches(r) == statusFilter = NoFilter \/ r.state = statusFilter
        hits == SelectSeq(Reverse(rows), Matches)
        lim == SubSeq(hits, offset + 1, Min(Len(hits), offset + limit))
    IN  [i \in 1..Len(lim) |-> lim[i].id]

validateStatus(st) == st \in MigrationStates

\* the MigrationSummary built for one id, lines 121-154
Summary(rows, cps, id) ==
    [MigrationID |-> id,
     Status |-> IF cps[id] # NoStartedAt THEN RowState(rows, id) ELSE "",
     CreatedAt |-> cps[id]]

SortKey(m, sortBy) ==
    CASE sortBy = "migration_id" -> IdRank(m.MigrationID)
      [] sortBy = "status" -> StatusRank(m.Status)
      [] OTHER -> m.CreatedAt

Less(a, b, sortBy, sortOrder) ==
    IF sortOrder = "desc"
    THEN SortKey(a, sortBy) > SortKey(b, sortBy)
    ELSE SortKey(a, sortBy) < SortKey(b, sortBy)

\* sort.Slice on fewer than 12 elements is an insertion sort: an element
\* moves left while it is less than its left neighbour
RECURSIVE InsertLeft(_, _, _, _)
InsertLeft(s, x, sortBy, sortOrder) ==
    IF s # <<>> /\ Less(x, s[Len(s)], sortBy, sortOrder)
    THEN Append(InsertLeft(SubSeq(s, 1, Len(s) - 1), x, sortBy, sortOrder), s[Len(s)])
    ELSE Append(s, x)

RECURSIVE SortSlice(_, _, _)
SortSlice(s, sortBy, sortOrder) ==
    IF s = <<>>
    THEN <<>>
    ELSE InsertLeft(SortSlice(SubSeq(s, 1, Len(s) - 1), sortBy, sortOrder),
                    s[Len(s)], sortBy, sortOrder)

\* lines 177-186
Paginate(ms, offset, limit) ==
    IF offset > Len(ms) THEN <<>>
    ELSE IF offset + limit > Len(ms) THEN SubSeq(ms, offset + 1, Len(ms))
    ELSE SubSeq(ms, offset + 1, offset + limit)

\* ListMigrationsTool.execute: the "migrations" field of the result
execute(rows, cps, statusFilter, limit, offset, sortBy, sortOrder) ==
    LET statusStr == IF statusFilter # "" /\ validateStatus(statusFilter) THEN statusFilter ELSE ""
        migrationIDs == ListMigrations(rows, statusStr, limit + offset, 0)
        summaries == [i \in 1..Len(migrationIDs) |-> Summary(rows, cps, migrationIDs[i])]
    IN  Paginate(SortSlice(summaries, sortBy, sortOrder), offset, limit)

\* tracker.SetState(id, st) by any client of the state store
StoreSetState(id, st) ==
    /\ ~listing.active
    /\ storeWrites < MaxStoreWrites
    /\ migrations' = UpsertState(migrations, id, st)
    /\ storeWrites' = storeWrites + 1
    /\ UNCHANGED <<checkpoints, listing, migrationVars, srvVars, trkVars, regVars, lifeVars, cmdVars, lockVars>>

\* tracker.SaveCheckpoint as Start calls it, StartedAt being the time of the call
StoreSaveCheckpoint(id) ==
    /\ ~listing.active
    /\ storeWrites < MaxStoreWrites
    /\ checkpoints' = [checkpoints EXCEPT ![id] = storeWrites + 1]
    /\ migrations' = IF RowState(migrations, id) = StateNotStarted
                     THEN UpsertState(migrations, id, StateInProgress)
                     ELSE migrations
    /\ storeWrites' = storeWrites + 1
    /\ UNCHANGED <<listing, migrationVars, srvVars, trkVars, regVars, lifeVars, cmdVars, lockVars>>

\* a client starts paging with offset 0 ...
ListBegin(statusFilter, limit, sortBy, sortOrder) ==
    /\ ~listing.active
    /\ migrations # <<>>
    /\ listing' = [active |-> TRUE, status |-> statusFilter, limit |-> limit, sortBy |-> sortBy,
                   sortOrder |-> sortOrder, offset |-> 0, pages |-> <<>>]
    /\ UNCHANGED <<migrations, checkpoints, storeWrites, migrationVars, srvVars, trkVars, regVars, lifeVars, cmdVars, lockVars>>

ListingDone == listing.offset >= Len(migrations)

\* ... and asks for offset 0, L, 2L, ... until every row has been passed
ListPage ==
    /\ listing.active
    /\ ~ListingDone
    /\ listing' = [listing EXCEPT
                     !.pages = Append(@, execute(migrations, checkpoints, listing.status,
                                                 listing.limit, listing.offset,
                                                 listing.sortBy, listing.sortOrder)),
                     !.offset = @ + listing.limit]
    /\ UNCHANGED <<migrations, checkpoints, storeWrites, migrationVars, srvVars, trkVars, regVars, lifeVars, cmdVars, lockVars>>

ListEnd ==
    /\ listing.active
    /\ ListingDone
    /\ listing' = IdleListing
    /\ UNCHANGED <<migrations, checkpoints, storeWrites, migrationVars, srvVars, trkVars, regVars, lifeVars, cmdVars, lockVars>>

ListStates == {StateInProgress, StateCompleted, StateRolledBack}

NextList ==
    \/ \E id \in IDs, st \in ListStates : StoreSetState(id, st)
    \/ \E id \in IDs : StoreSaveCheckpoint(id)
    \/ \E f \in StatusFilters, l \in Limits, sb \in SortBys, so \in SortOrders : ListBegin(f, l, sb, so)
    \/ ListPage
    \/ ListEnd

SpecList == Init /\ [][NextList]_vars

\* ------------------------------------------------- Server.Start / Stop
SetLife(t, pc, ret) == [life EXCEPT ![t] = [pc |-> pc, ret |-> ret]]

lifeOthers == <<migrationVars, srvVars, trkVars, regVars, listVars, cmdVars, lockVars>>

\* a goroutine calls server.Start(ctx)
CallStart(t) ==
    /\ life[t].pc = "idle"
    /\ life' = SetLife(t, "lock", "")
    /\ UNCHANGED <<mu, server, httpServer, serveCtxDone, lifeOthers>>

\* s.mu.Lock(), line 283
StartLock(t) ==
    /\ life[t].pc = "lock"
    /\ mu = NoHolder
    /\ mu' = t
    /\ life' = SetLife(t, "check", "")
    /\ UNCHANGED <<server, httpServer, serveCtxDone, lifeOthers>>

\* lines 286-325; the deferred Unlock runs on the early return
StartCheck(t) ==
    /\ life[t].pc = "check"
    /\ IF server
       THEN /\ life' = SetLife(t, "done", "server already started")
            /\ mu' = NoHolder
            /\ UNCHANGED <<server, httpServer>>
       ELSE /\ server' = TRUE
            /\ httpServer' = "created"
            /\ life' = SetLife(t, "spawn", "")
            /\ UNCHANGED mu
    /\ UNCHANGED <<serveCtxDone, lifeOthers>>

\* go func() { <-ctx.Done(); s.Stop() }(), lines 327-330
StartSpawn(t) ==
    /\ life[t].pc = "spawn"
    /\ life' = [life EXCEPT ![t] = [pc |-> "listen", ret |-> ""],
                            ![Watcher(t)] = [pc |-> "wait", ret |-> ""]]
    /\ UNCHANGED <<mu, server, httpServer, serveCtxDone, lifeOthers>>

\* s.server.ListenAndServe(), line 332: it serves, or fails to bind and
\* Start returns the error
ListenAndServe(t) ==
    /\ life[t].pc = "listen"
    /\ \/ /\ httpServer' = "serving"
          /\ life' = SetLife(t, "serve", "")
          /\ UNCHANGED mu
       \/ /\ httpServer' = "failed"
          /\ life' = SetLife(t, "done", "listen error")
          /\ mu' = NoHolder
    /\ UNCHANGED <<server, serveCtxDone, lifeOthers>>

\* ListenAndServe returns, lines 332-336: http.ErrServerClosed once Shutdown
\* was called (Start returns nil), or the error of a failed Accept; the
\* deferred Unlock runs
StartReturn(t) ==
    /\ life[t].pc = "serve"
    /\ \/ /\ httpServer = "closed"
          /\ life' = SetLife(t, "done", "nil")
          /\ UNCHANGED httpServer
       \/ /\ httpServer = "serving"
          /\ httpServer' = "failed"
          /\ life' = SetLife(t, "done", "serve error")
    /\ mu' = NoHolder
    /\ UNCHANGED <<server, serveCtxDone, lifeOthers>>

\* the context passed to Start is cancelled
CancelServe ==
    /\ ~serveCtxDone
    /\ serveCtxDone' = TRUE
    /\ UNCHANGED <<mu, server, httpServer, life, lifeOthers>>

\* <-ctx.Done() returns in the goroutine of Start, which calls s.Stop()
WatcherWakes(w) ==
    /\ life[w].pc = "wait"
    /\ serveCtxDone
    /\ life' = SetLife(w, "stoplock", "")
    /\ UNCHANGED <<mu, server, httpServer, serveCtxDone, lifeOthers>>

\* some goroutine calls server.Stop()
CallStop ==
    /\ life[Stopper].pc = "idle"
    /\ life' = SetLife(Stopper, "stoplock", "")
    /\ UNCHANGED <<mu, server, httpServer, serveCtxDone, lifeOthers>>

\* s.mu.Lock(), line 341
StopLock(t) ==
    /\ life[t].pc = "stoplock"
    /\ mu = NoHolder
    /\ mu' = t
    /\ life' = SetLife(t, "stop", "")
    /\ UNCHANGED <<server, httpServer, serveCtxDone, lifeOthers>>

\* lines 344-357: Shutdown, s.server = nil, deferred Unlock
StopBody(t) ==
    /\ life[t].pc = "stop"
    /\ IF ~server
       THEN UNCHANGED <<server, httpServer>>
       ELSE /\ httpServer' = "closed"
            /\ server' = FALSE
    /\ life' = SetLife(t, "done", "nil")
    /\ mu' = NoHolder
    /\ UNCHANGED <<serveCtxDone, lifeOthers>>

\* the steps of the goroutines inside Start and Stop
ServerStep ==
    \/ \E t \in Starters : StartLock(t) \/ StartCheck(t) \/ StartSpawn(t)
                             \/ ListenAndServe(t) \/ StartReturn(t)
    \/ \E w \in Watchers : WatcherWakes(w)
    \/ \E t \in Watchers \cup {Stopper} : StopLock(t) \/ StopBody(t)

NextLife ==
    \/ \E t \in Starters : CallStart(t)
    \/ CallStop
    \/ CancelServe
    \/ ServerStep

SpecLife == Init /\ [][NextLife]_vars

\* --------------------------------------------------- the migrate command
\* runMigrate after migrator.Start, lines 130-137: a failed Start ends the
\* command with an error, otherwise the monitoring loop begins
MonitorBegin ==
    /\ monitor.pc = "init"
    /\ configSet
    /\ monitor' = [monitor EXCEPT !.pc = IF nStarts = 0 THEN "exit1" ELSE "polling"]
    /\ UNCHANGED <<migrationVars, srvVars, trkVars, regVars, listVars, lifeVars, lockVars>>

\* one tick of the loop, lines 144-168: GetStatus, the progress line, and
\* the comparisons of status.Status with "completed", "failed" and "stopped"
MonitorTick ==
    /\ monitor.pc = "polling"
    /\ monitor' = [pc |-> IF status = "completed" THEN "exit0"
                          ELSE IF status = "failed" \/ status = "stopped" THEN "exit1"
                          ELSE "polling",
                   seen |-> status]
    /\ UNCHANGED <<migrationVars, srvVars, trkVars, regVars, listVars, lifeVars, lockVars>>

\* the command starts one migration and calls nothing but GetStatus afterwards
NextMigrate ==
    \/ \E c \in Configs : Start(c[1], c[2]) /\ ~configSet
    \/ \E w \in 1..MaxStarts : WorkerGetStats(w)
    \/ \E w \in 1..MaxStarts : WorkerSetTotal(w)
    \/ \E w \in 1..MaxStarts : WorkerCheck(w)
    \/ \E w \in 1..MaxStarts : WorkerGetBatch(w)
    \/ \E w \in 1..MaxStarts : WorkerMap(w)
    \/ \E w \in 1..MaxStarts : WorkerUpsert(w)
    \/ \E w \in 1..MaxStarts : WorkerProgress(w)
    \/ \E w \in 1..MaxStarts : WorkerComplete(w)
    \/ \E w \in 1..MaxStarts : WorkerFail(w)
    \/ \E w \in 1..MaxStarts : WorkerDefer(w)
    \/ MonitorBegin
    \/ MonitorTick

SpecMigrate == Init /\ [][NextMigrate]_vars

\* ------------------------------------------------- BaseOrchestrator.mu
\* The orchestrator with o.mu made explicit.  A critical section that only
\* touches memory is one step, taken when the lock is free; a critical
\* section that calls the state store keeps o.mu over the steps of the call.
\* A pc that names a call (stats, getBatch, upsert, saveCheckpoint, setState,
\* ...) means that the call is in progress.  Counters and the contents of
\* the stores play no part in the locking and are left as they are.
lockRest == <<batchSize, validateEvery, totalRecords, migratedRecords, batchesProcessed,
              workers, nStarts, crashes, dbState, dbCheckpoint, target, rolledBack,
              srvVars, trkVars, regVars, listVars, lifeVars, cmdVars>>

lockFlags == <<isRunning, isPaused, ctxCancelled, configSet, status>>

SetLockCall(c, op, pc) ==
    lockCallers' = [lockCallers EXCEPT ![c] = [@ EXCEPT !.op = op, !.pc = pc]]

ReturnLockCall(c) == lockCallers' = [lockCallers EXCEPT ![c] = IdleLockCall]

SetLockWorker(w, pc) == lockWorkers' = [lockWorkers EXCEPT ![w].pc = pc]

LockWorkerFails(w, reason) ==
    lockWorkers' = [lockWorkers EXCEPT ![w].pc = "fail", ![w].reason = reason]

\* line 161: the worker releases o.mu before it calls fail
UnlockBeforeFail_Missing(w) == WorkerId(w)

UnlockBeforeFail(w) == Unlocked

\* a goroutine calls Start, Pause, Resume, Stop, Rollback or GetStatus with
\* the orchestrator's own id and arrives at the Lock (RLock for GetStatus)
LockCall(c, op) ==
    /\ lockCallers[c].pc = "idle"
    /\ op = "Start" => lockStarts < MaxLockStarts
    /\ op = "Rollback" => configSet
    /\ lockCallers' = [lockCallers EXCEPT ![c] =
                          [op |-> op, pc |-> "lock",
                           slot |-> IF op = "Start" THEN lockStarts + 1 ELSE 0]]
    /\ lockStarts' = IF op = "Start" THEN lockStarts + 1 ELSE lockStarts
    /\ UNCHANGED <<lockFlags, omu, lockWorkers, lockRest>>

\* Start, lines 36-59: up to the call of SaveCheckpoint, made under o.mu
LockStart(c) ==
    /\ lockCallers[c] = [lockCallers[c] EXCEPT !.op = "Start", !.pc = "lock"]
    /\ omu = Unlocked
    /\ IF isRunning
       THEN /\ ReturnLockCall(c)
            /\ UNCHANGED <<lockFlags, omu>>
       ELSE /\ configSet' = TRUE
            /\ ctxCancelled' = FALSE
            /\ isRunning' = TRUE
            /\ isPaused' = FALSE
            /\ status' = "in_progress"
            /\ omu' = CallerId(c)
            /\ SetLockCall(c, "Start", "saveCheckpoint")
    /\ UNCHANGED <<lockWorkers, lockStarts, lockRest>>

\* Start, lines 61-69: SaveCheckpoint returns; on success the worker is
\* launched; the deferred Unlock runs
LockStartReturn(c) ==
    /\ lockCallers[c] = [lockCallers[c] EXCEPT !.op = "Start", !.pc = "saveCheckpoint"]
    /\ \E out \in {"ok", "err"}, n \in 0..MaxLockBatches :
         lockWorkers' = IF out = "ok"
                        THEN [lockWorkers EXCEPT ![lockCallers[c].slot] =
                                 [pc |-> "stats", left |-> n, reason |-> ""]]
                        ELSE lockWorkers
    /\ omu' = Unlocked
    /\ ReturnLockCall(c)
    /\ UNCHANGED <<lockFlags, lockStarts, lockRest>>

\* Pause, lines 178-188
LockPause(c) ==
    /\ lockCallers[c] = [lockCallers[c] EXCEPT !.op = "Pause", !.pc = "lock"]
    /\ omu = Unlocked
    /\ IF isRunning
       THEN isPaused' = TRUE /\ status' = "paused"
       ELSE UNCHANGED <<isPaused, status>>
    /\ ReturnLockCall(c)
    /\ UNCHANGED <<isRunning, ctxCancelled, configSet, omu, lockWorkers, lockStarts, lockRest>>

\* Resume, lines 197-207
LockResume(c) ==
    /\ lockCallers[c] = [lockCallers[c] EXCEPT !.op = "Resume", !.pc = "lock"]
    /\ omu = Unlocked
    /\ IF isPaused
       THEN isPaused' = FALSE /\ status' = "in_progress"
       ELSE UNCHANGED <<isPaused, status>>
    /\ ReturnLockCall(c)
    /\ UNCHANGED <<isRunning, ctxCancelled, configSet, omu, lockWorkers, lockStarts, lockRest>>

\* Stop, lines 216-227
LockStop(c) ==
    /\ lockCallers[c] = [lockCallers[c] EXCEPT !.op = "Stop", !.pc = "lock"]
    /\ omu = Unlocked
    /\ IF isRunning
       THEN ctxCancelled' = TRUE /\ status' = "stopped" /\ isRunning' = FALSE
       ELSE UNCHANGED <<ctxCancelled, status, isRunning>>
    /\ ReturnLockCall(c)
    /\ UNCHANGED <<isPaused, configSet, omu, lockWorkers, lockStarts, lockRest>>

\* Rollback, lines 234-239: up to the call of SetState, made under o.mu
LockRollback(c) ==
    /\ lockCallers[c] = [lockCallers[c] EXCEPT !.op = "Rollback", !.pc = "lock"]
    /\ omu = Unlocked
    /\ status' = "rolled_back"
    /\ omu' = CallerId(c)
    /\ SetLockCall(c, "Rollback", "setState")
    /\ UNCHANGED <<isRunning, isPaused, ctxCancelled, configSet, lockWorkers, lockStarts, lockRest>>

\* Rollback, lines 239-244: SetState returns and the deferred Unlock runs
LockRollbackReturn(c) ==
    /\ lockCallers[c] = [lockCallers[c] EXCEPT !.op = "Rollback", !.pc = "setState"]
    /\ omu' = Unlocked
    /\ ReturnLockCall(c)
    /\ UNCHANGED <<lockFlags, lockWorkers, lockStarts, lockRest>>

\* GetStatus, lines 252-257: a copy of the stats under RLock
LockGetStatus(c) ==
    /\ lockCallers[c] = [lockCallers[c] EXCEPT !.op = "GetStatus", !.pc = "lock"]
    /\ omu = Unlocked
    /\ ReturnLockCall(c)
    /\ UNCHANGED <<lockFlags, omu, lockWorkers, lockStarts, lockRest>>

\* runMigration, lines 80-85: GetStats returns
RunStats(w) ==
    /\ lockWorkers[w].pc = "stats"
    /\ \E out \in {"ok", "err"} :
         IF out = "ok" THEN SetLockWorker(w, "setTotal")
                       ELSE LockWorkerFails(w, "failed to get source stats")
    /\ UNCHANGED <<lockFlags, omu, lockCallers, lockStarts, lockRest>>

\* lines 87-89
RunSetTotal(w) ==
    /\ lockWorkers[w].pc = "setTotal"
    /\ omu = Unlocked
    /\ SetLockWorker(w, "check")
    /\ UNCHANGED <<lockFlags, omu, lockCallers, lockStarts, lockRest>>

\* lines 97-102, under RLock; on to the GetBatch call of line 110
RunCheck(w) ==
    /\ lockWorkers[w].pc = "check"
    /\ omu = Unlocked
    /\ SetLockWorker(w, IF isPaused \/ ctxCancelled THEN "defer" ELSE "getBatch")
    /\ UNCHANGED <<lockFlags, omu, lockCallers, lockStarts, lockRest>>

\* lines 110-120: GetBatch returns
RunGetBatch(w) ==
    /\ lockWorkers[w].pc = "getBatch"
    /\ \E out \in {"ok", "err"} :
         IF out = "err" THEN LockWorkerFails(w, "failed to get batch")
         ELSE SetLockWorker(w, IF lockWorkers[w].left = 0 THEN "complete" ELSE "map")
    /\ UNCHANGED <<lockFlags, omu, lockCallers, lockStarts, lockRest>>

\* lines 123-130: MapBatch; on success the UpsertBatch call begins
RunMap(w) ==
    /\ lockWorkers[w].pc = "map"
    /\ \E out \in {"ok", "err"} :
         IF out = "ok" THEN SetLockWorker(w, "upsert")
                       ELSE LockWorkerFails(w, "failed to map batch")
    /\ UNCHANGED <<lockFlags, omu, lockCallers, lockStarts, lockRest>>

\* lines 130-133: UpsertBatch returns
RunUpsert(w) ==
    /\ lockWorkers[w].pc = "upsert"
    /\ \E out \in {"ok", "err"} :
         IF out = "ok" THEN SetLockWorker(w, "progress")
                       ELSE LockWorkerFails(w, "failed to upsert batch")
    /\ UNCHANGED <<lockFlags, omu, lockCallers, lockStarts, lockRest>>

\* lines 136-166: Lock, the counters, and either the SaveCheckpoint call
\* under o.mu or the Unlock of line 166
RunProgress(w) ==
    /\ lockWorkers[w].pc = "progress"
    /\ omu = Unlocked
    /\ \E due \in BOOLEAN :
         IF due
         THEN /\ omu' = WorkerId(w)
              /\ SetLockWorker(w, "saveCheckpoint")
         ELSE /\ UNCHANGED omu
              /\ lockWorkers' = [lockWorkers EXCEPT ![w].pc = "check", ![w].left = @ - 1]
    /\ UNCHANGED <<lockFlags, lockCallers, lockStarts, lockRest>>

\* lines 160-166: SaveCheckpoint returns; Unlock, then the loop or fail
RunSaveCheckpoint(w) ==
    /\ lockWorkers[w].pc = "saveCheckpoint"
    /\ \E out \in {"ok", "err"} :
         IF out = "ok"
         THEN /\ omu' = Unlocked
              /\ lockWorkers' = [lockWorkers EXCEPT ![w].pc = "check", ![w].left = @ - 1]
         ELSE /\ omu' = UnlockBeforeFail(w)
              /\ LockWorkerFails(w, "failed to save checkpoint")
    /\ UNCHANGED <<lockFlags, lockCallers, lockStarts, lockRest>>

\* fail, lines 300-307: Lock, status, and the SetState call under o.mu
RunFail(w) ==
    /\ lockWorkers[w].pc = "fail"
    /\ omu = Unlocked
    /\ omu' = WorkerId(w)
    /\ status' = FailedStatus(lockWorkers[w].reason)
    /\ isRunning' = FALSE
    /\ SetLockWorker(w, "failSetState")
    /\ UNCHANGED <<isPaused, ctxCancelled, configSet, lockCallers, lockStarts, lockRest>>

\* fail, lines 307-308: SetState returns and the deferred Unlock runs
RunFailReturn(w) ==
    /\ lockWorkers[w].pc = "failSetState"
    /\ omu' = Unlocked
    /\ SetLockWorker(w, "defer")
    /\ UNCHANGED <<lockFlags, lockCallers, lockStarts, lockRest>>

\* complete, lines 277-294: Lock, status, and the SaveCheckpoint call under o.mu
RunComplete(w) ==
    /\ lockWorkers[w].pc = "complete"
    /\ omu = Unlocked
    /\ omu' = WorkerId(w)
    /\ status' = "completed"
    /\ isRunning' = FALSE
    /\ SetLockWorker(w, "completeSave")
    /\ UNCHANGED <<isPaused, ctxCancelled, configSet, lockCallers, lockStarts, lockRest>>

\* complete, lines 294-295: SaveCheckpoint returns, SetState is called
RunCompleteSaved(w) ==
    /\ lockWorkers[w].pc = "completeSave"
    /\ SetLockWorker(w, "completeSetState")
    /\ UNCHANGED <<lockFlags, omu, lockCallers, lockStarts, lockRest>>

\* complete, lines 295-296: SetState returns and the deferred Unlock runs
RunCompleteReturn(w) ==
    /\ lockWorkers[w].pc = "completeSetState"
    /\ omu' = Unlocked
    /\ SetLockWorker(w, "defer")
    /\ UNCHANGED <<lockFlags, lockCallers, lockStarts, lockRest>>

\* the deferred function of runMigration, lines 73-78
RunDefer(w) ==
    /\ lockWorkers[w].pc = "defer"
    /\ omu = Unlocked
    /\ isRunning' = FALSE
    /\ ctxCancelled' = TRUE
    /\ lockWorkers' = [lockWorkers EXCEPT ![w] = [IdleLockWorker EXCEPT !.pc = "done"]]
    /\ UNCHANGED <<isPaused, configSet, status, omu, lockCallers, lockStarts, lockRest>>

\* the steps of the orchestrator's own code
LockStep ==
    \/ \E c \in LockCallers : LockStart(c) \/ LockStartReturn(c) \/ LockPause(c) \/ LockResume(c)
                                \/ LockStop(c) \/ LockRollback(c) \/ LockRollbackReturn(c)
                                \/ LockGetStatus(c)
    \/ \E w \in 1..MaxLockStarts : RunStats(w) \/ RunSetTotal(w) \/ RunCheck(w) \/ RunGetBatch(w)
                                     \/ RunMap(w) \/ RunUpsert(w) \/ RunProgress(w)
                                     \/ RunSaveCheckpoint(w) \/ RunFail(w) \/ RunFailReturn(w)
                                     \/ RunComplete(w) \/ RunCompleteSaved(w)
                                     \/ RunCompleteReturn(w) \/ RunDefer(w)

NextLock ==
    \/ \E c \in LockCallers, op \in LockOps : LockCall(c, op)
    \/ LockStep

SpecLock == Init /\ [][NextLock]_vars


\* ================================================================ claims
StartStep == \E c \in Configs : Start(c[1], c[2])

AllowedTransitions ==
    { <<StateNotStarted, StateInProgress>>, <<StateInProgress, StateCompleted>>,
      <<StateInProgress, StateFailed>>, <<StateInProgress, StateRolledBack>> }

\* C1: every change of the durable lifecycle state of an id is a step of
\* not_started -> in_progress -> {completed | failed | rolled_back}; in
\* particular completed and rolled_back never change again.
C1_LifecyclePath ==
    [][\A id \in IDs :
         GetState(dbState', id) # GetState(dbState, id)
           => <<GetState(dbState, id), GetState(dbState', id)>> \in AllowedTransitions]_vars

\* C2: at most one runMigration worker is executing at any moment.
C2_SingleWorker == Cardinality(LiveWorkers) <= 1

\* C3: a tool handler runs only for a request whose Authorization header
\* carries the configured credential (raw or as Bearer token), whatever the
\* request's path and method.
C3_ExecuteOnlyAuthenticated ==
    \A r \in Requests :
        requests[r].ran # "" => extractAPIKey(requests[r].auth) = ConfiguredKey

\* C4: the cursor of a worker's first get_batch call is the last_processed_id
\* the durable checkpoint held when Start was called (the empty cursor when
\* there was none).
C4_ResumesFromCheckpoint ==
    \A w \in 1..MaxStarts : workers[w].first # -1 => workers[w].first = workers[w].resume

\* C5: a non-empty last_processed_id in a durable checkpoint is the id of a
\* record that a successful upsert_batch has written to the target.
C5_CheckpointedIdInTarget ==
    \A id \in IDs :
        (dbCheckpoint[id].present /\ dbCheckpoint[id].last # EmptyCursor)
            => dbCheckpoint[id].last \in target

C5_Witness ==
    /\ dbCheckpoint[OwnID].present
    /\ dbCheckpoint[OwnID].last = NumRecords
    /\ NumRecords \in target

\* C6: pause does not end the run: a worker that finds the migration paused
\* (and not stopped) at the top of the batch loop stays in the loop.
C6_PauseKeepsWorker ==
    [][\A w \in 1..MaxStarts :
         (workers[w].pc = "check" /\ isPaused /\ ~ctxCancelled /\ crashes' = crashes)
           => workers'[w].pc \notin {"defer", "done"}]_vars

\* C7: once Stop has set the status to stopped, the status of that run never
\* becomes completed, failed or in_progress.
C7_StoppedStays ==
    [][(status = "stopped" /\ ~StartStep)
         => status' \notin ({"completed", "in_progress"} \cup FailedStatuses)]_vars

\* C8: after Rollback returned success while a worker was running, nothing more
\* is written in that run: no batch to the target, no checkpoint, no lifecycle
\* state.
C8_RollbackStopsWorker ==
    [][(rolledBack /\ rolledBack')
         => /\ target' = target
            /\ dbCheckpoint'[OwnID] = dbCheckpoint[OwnID]
            /\ dbState'[OwnID] = dbState[OwnID]]_vars

\* C9: a worker that leaves through the fatal path has written the durable
\* state failed before it exits.
C9_FatalWritesFailed ==
    \A w \in 1..MaxStarts :
        (workers[w].pc = "defer" /\ workers[w].exit = "failed") => workers[w].failWritten

\* C10: a worker one of whose SaveCheckpoint or SetState calls returned an
\* error ends the run as failed, never as completed.
C10_StoreFailureIsFatal ==
    \A w \in 1..MaxStarts :
        (workers[w].pc = "defer" /\ workers[w].storeErr) => workers[w].exit = "failed"

\* C11: with max_retries >= 1 a transient error of get_batch or upsert_batch
\* is retried: the step in which the worker issues the call for a batch (the
\* context not being cancelled) never takes it straight to the fatal path.
C11_TransientErrorRetried ==
    [][\A w \in 1..MaxStarts :
         (DefaultMaxRetries >= 1 /\ ~ctxCancelled /\ workers[w].pc \in {"getBatch", "upsert"})
           => workers'[w].pc # "fail"]_vars

\* C12: with a finite source, no failing call and no Pause, Stop or Rollback,
\* a started migration whose workers have all returned has ended normally:
\* status and durable lifecycle state are completed and the orchestrator is
\* not marked running.
C12_EndsCompleted ==
    (nStarts > 0 /\ LiveWorkers = {})
        => /\ status = "completed"
           /\ GetState(dbState, OwnID) = StateCompleted
           /\ ~isRunning

C14_ProcessedCountMonotone ==
    [][\A id \in IDs : dbCheckpoint'[id].processed >= dbCheckpoint[id].processed]_vars

\* C15: once total_records > 0, processed_count <= total_records, in the
\* orchestrator's status and in every durable checkpoint.
C15_ProcessedWithinTotal ==
    /\ totalRecords > 0 => migratedRecords <= totalRecords
    /\ \A id \in IDs : dbCheckpoint[id].total > 0
                          => dbCheckpoint[id].processed <= dbCheckpoint[id].total

\* a step that consists of one SaveCheckpoint call and nothing else on the
\* tracker: Start, or the worker's periodic checkpoint
SaveCheckpointStep == StartStep \/ \E w \in 1..MaxStarts : WorkerProgress(w)

\* C16: a SaveCheckpoint call changes the lifecycle state of its id only
\* from not_started (or unknown) to in_progress, which it does whenever it
\* succeeds on such an id; it leaves every other state of its id, and the
\* state and checkpoint of every other id, unchanged.
C16_SaveCheckpointFrame ==
    [][SaveCheckpointStep =>
         /\ \A id \in IDs \ {OwnID} : dbState'[id] = dbState[id] /\ dbCheckpoint'[id] = dbCheckpoint[id]
         /\ GetState(dbState, OwnID) # StateNotStarted => dbState'[OwnID] = dbState[OwnID]
         /\ dbState'[OwnID] # dbState[OwnID] => GetState(dbState', OwnID) = StateInProgress
         /\ (StartStep /\ nStarts' = nStarts + 1) => GetState(dbState', OwnID) # StateNotStarted]_vars

\* the second Start saved its initial checkpoint on a completed id
C16_Witness ==
    /\ nStarts = 2
    /\ dbState[OwnID] = StateCompleted
    /\ dbCheckpoint[OwnID] = Checkpoint(EmptyCursor, 0, 0)

\* C17: a SaveCheckpoint call that returns an error (Start then returns an
\* error and starts no worker) leaves the checkpoint and the lifecycle state
\* of its id as they were.
C17_FailedSaveChangesNothing ==
    [][(StartStep /\ nStarts' = nStarts)
         => dbCheckpoint' = dbCheckpoint /\ dbState' = dbState]_vars

\* the tables as two callers' calls leave them when run one after another
Tables(st, cp) == [st |-> st, cp |-> cp]

ApplyCall(tab, call) ==
    IF call.op = "SaveCheckpoint"
    THEN Tables(SaveCheckpointState(tab.st, call.id, "ok"),
                SaveCheckpointCp(tab.cp, call.id, Checkpoint(call.cp, NumRecords, call.cp), "ok"))
    ELSE Tables(SetState(tab.st, call.id, call.st), tab.cp)

RECURSIVE SequentialResults(_, _)
SequentialResults(tab, cs) ==
    IF cs = {} THEN {tab}
    ELSE UNION { SequentialResults(ApplyCall(tab, calls[c]), cs \ {c}) : c \in cs }

\* C18: once the concurrent SaveCheckpoint and SetState calls have all
\* returned success, the stored checkpoints and lifecycle states are those
\* that some sequential order of the same calls produces.
C18_Serialisable ==
    (\A c \in Callers : calls[c].pc \in {"idle", "ok"})
        => Tables(dbState, dbCheckpoint) \in
             SequentialResults(Tables([id \in IDs |-> NoRow], [id \in IDs |-> NoCheckpoint]),
                               { c \in Callers : calls[c].pc = "ok" })

\* C19: a request rejected by authentication or by rate limiting has an audit
\* request entry and an audit response entry carrying the rejection's status.
C19_RejectionsAudited ==
    \A r \in Requests :
        (requests[r].pc = "done"
           /\ requests[r].status \in {StatusUnauthorized, StatusForbidden, StatusTooManyRequests})
        => /\ \E i \in DOMAIN auditLog : auditLog[i].kind = "request" /\ auditLog[i].req = r
           /\ \E i \in DOMAIN auditLog : /\ auditLog[i].kind = "response"
                                         /\ auditLog[i].req = r
                                         /\ auditLog[i].status = requests[r].status

\* C20: the audit request entry of every request that carried the valid
\* credential (longer than 4 characters) shows the principal as **** followed
\* by the credential's last 4 characters, and never the credential itself.
C20_PrincipalMasked ==
    \A i \in DOMAIN auditLog :
        (auditLog[i].kind = "request"
           /\ extractAPIKey(requests[auditLog[i].req].auth) = ConfiguredKey
           /\ Len(ConfiguredKey) > KeepLast)
        => /\ auditLog[i].key = Stars \o SubSeq(ConfiguredKey, Len(ConfiguredKey) - KeepLast + 1,
                                                 Len(ConfiguredKey))
           /\ auditLog[i].key # ConfiguredKey

\* tokens of principal k; a bucket not yet created is full
Tokens(lims, k) == IF k \in DOMAIN lims THEN lims[k] ELSE Burst

RateStep(r) == requests[r].pc = "rate" /\ requests'[r].pc # "rate"

ValidHeaders == {ConfiguredKey, bearerPrefix \o ConfiguredKey}

Audited(r) == \E i \in DOMAIN auditLog : auditLog[i].req = r

\* what C22 requires of a request that has passed the authentication stage
RejectionCodesFor(r) ==
    LET q == requests[r]
        notInvoked == q.pc = "done" /\ q.ran = "" /\ ~Audited(r)
    IN /\ q.auth = <<>>
         => q.code = CodeMissingAuthorization /\ q.status = StatusUnauthorized /\ notInvoked
       /\ (q.auth # <<>> /\ q.auth \notin ValidHeaders)
         => q.code = CodeInvalidAPIKey /\ q.status = StatusForbidden /\ notInvoked
       /\ q.auth \in ValidHeaders
         => /\ q.code \notin {CodeMissingAuthorization, CodeInvalidAPIKey}
            /\ q.apiKey = ConfiguredKey
            /\ q.code = CodeRateLimitExceeded
                 => q.status = StatusTooManyRequests /\ notInvoked
            /\ (q.pc \in {"handle", "auditEnd", "done"} /\ q.code # CodeRateLimitExceeded)
                 => Audited(r)

\* C22 as stated: on every path, a request without a credential ends with
\* -32000, one with a wrong credential with -32001, one whose bucket is empty
\* with -32002, each without the next handler being invoked, and a request
\* with the valid credential (raw or Bearer) and a token reaches the next
\* handler with the principal in its context.
C22_RejectionCodes ==
    \A r \in Requests : requests[r].pc \notin {"new", "auth"} => RejectionCodesFor(r)

\* C22, amended: the same on every path other than the health-check path.
C22_RejectionCodesOffHealthPath ==
    \A r \in Requests :
        (requests[r].pc \notin {"new", "auth"} /\ requests[r].path # HealthPath)
          => RejectionCodesFor(r)

\* a Bearer request was admitted and handled, a request without credential refused
C22_Witness ==
    /\ requests[1].path = "/" /\ requests[1].auth = bearerPrefix \o ConfiguredKey
    /\ requests[1].pc = "done" /\ requests[1].ran = "migration_status"
    /\ requests[2].path = "/" /\ requests[2].auth = <<>>
    /\ requests[2].code = CodeMissingAuthorization

\* C23: a GET /healthz without credential is answered with a success status
\* and no JSON-RPC error.
C23_HealthCheckSucceeds ==
    \A r \in Requests :
        (requests[r].pc = "done" /\ requests[r].path = HealthPath
           /\ requests[r].method = "GET" /\ requests[r].auth = <<>>)
        => requests[r].status = StatusOK /\ requests[r].code = NoCode

\* C24: a /healthz request takes no token from any bucket and is never
\* rejected with -32002.
C24_HealthCheckNotCharged ==
    [][\A r \in Requests :
         (requests[r].path = HealthPath /\ RateStep(r))
           => /\ \A k \in {ConfiguredKey, Anonymous} : Tokens(limiters', k) = Tokens(limiters, k)
              /\ requests'[r].code # CodeRateLimitExceeded]_vars

Answered(r) == requests[r].pc \in {"auditEnd", "done"} /\ Audited(r)

\* C25: a well-formed JSON-RPC 2.0 POST naming no registered tool is answered
\* with -32601 and runs no tool handler.
C25_MethodNotFound ==
    \A r \in Requests :
        (Answered(r) /\ requests[r].method = "POST" /\ requests[r].body.json
           /\ requests[r].body.jsonrpc = "2.0" /\ requests[r].body.method \notin Tools)
        => requests[r].code = MethodNotFound /\ requests[r].ran = ""

\* C26: a request that is not a POST is answered with -32600, a POST whose
\* body is not valid JSON with -32700 and a null id, a POST whose jsonrpc
\* field is not 2.0 with -32600 and the request's id; none of them runs a
\* tool handler.
C26_ProtocolErrors ==
    \A r \in Requests :
        Answered(r) =>
          LET q == requests[r]
          IN /\ q.method # "POST" => q.code = InvalidRequest /\ q.ran = ""
             /\ (q.method = "POST" /\ ~q.body.json)
                  => q.code = ParseError /\ q.respId = NullId /\ q.ran = ""
             /\ (q.method = "POST" /\ q.body.json /\ q.body.jsonrpc # "2.0")
                  => q.code = InvalidRequest /\ q.respId = q.body.id /\ q.ran = ""

\* C27: Pause, Resume, Stop and Rollback called with an id other than the
\* orchestrator's own change nothing: not the orchestrator's flags, counters
\* and status, not the durable states and checkpoints.
C27_ForeignIdChangesNothing ==
    [][\A id \in IDs \ {OwnID} :
         (Pause(id) \/ Resume(id) \/ Stop(id) \/ Rollback(id))
           => UNCHANGED <<orchVars, dbState, dbCheckpoint>>]_vars

\* C28: Start acts only on an idle orchestrator, one whose status is still
\* not_started; on any other it starts no worker and changes nothing.
C28_StartOnlyWhenIdle ==
    [][StartStep => status = "not_started"]_vars

\* C29: Pause takes effect only while the migration is running, Resume only
\* while it is paused with its run still active, Stop only while it is
\* running or paused.
C29_ControlsRespectState ==
    [][/\ (\E id \in IDs : Pause(id)) => status \in {"in_progress", "paused"}
       /\ (\E id \in IDs : Resume(id)) => status = "paused" /\ isRunning
       /\ (\E id \in IDs : Stop(id)) => status \in {"in_progress", "paused"}]_vars

\* C30: Register adds the tool exactly when its name is non-empty, its handler
\* is present and the name is free, and otherwise returns an error and leaves
\* the registry as it was; under every interleaving of Register, Get, List and
\* Execute exactly one Register succeeds per name that was passed with a
\* handler, no registered tool is replaced or removed, and Get (also inside
\* Execute) returns the tool first registered under the name.
ValidTool(tool) == tool.Name # "" /\ tool.Handler # NilHandler

Successes(name) ==
    {i \in 1..Len(registerLog) : registerLog[i].tool.Name = name /\ ~registerLog[i].err}

ValidCalls(name) ==
    {i \in 1..Len(registerLog) : registerLog[i].tool.Name = name /\ ValidTool(registerLog[i].tool)}

FirstRegistered(name) ==
    registerLog[CHOOSE i \in ValidCalls(name) : \A j \in ValidCalls(name) : i <= j].tool

RegisterStep ==
    /\ Len(registerLog') = Len(registerLog) + 1
    /\ LET call == registerLog'[Len(registerLog')]
           adds == ValidTool(call.tool) /\ call.tool.Name \notin DOMAIN tools
       IN  /\ adds => /\ ~call.err
                      /\ DOMAIN tools' = DOMAIN tools \cup {call.tool.Name}
                      /\ tools'[call.tool.Name] = call.tool
           /\ ~adds => call.err /\ tools' = tools

RegistryConsistent ==
    /\ \A name \in ToolNames :
         /\ Cardinality(Successes(name)) = IF ValidCalls(name) = {} THEN 0 ELSE 1
         /\ name \in DOMAIN tools <=> ValidCalls(name) # {}
         /\ name \in DOMAIN tools => tools[name] = FirstRegistered(name)
    /\ \A c \in RegCallers :
         /\ (execs[c].op \in {"Get", "Execute"} /\ ~execs[c].err)
               => execs[c].tool = FirstRegistered(execs[c].name)
         /\ (execs[c].op = "Execute" /\ execs[c].pc = "ret" /\ ~execs[c].err)
               => execs[c].called = FirstRegistered(execs[c].name).Handler
         /\ execs[c].op = "List"
               => \A t \in execs[c].list : t = FirstRegistered(t.Name)

C30_RegisterOnce ==
    /\ [][/\ (\E tool \in ToolArgs : Register(tool)) => RegisterStep
          /\ \A name \in DOMAIN tools :
                 name \in DOMAIN tools' /\ tools'[name] = tools[name]]_vars
    /\ []RegistryConsistent

\* a second tool was refused under a name already taken, and an Execute of
\* that name ran the handler of the first
C30_Witness ==
    /\ \E i, j \in 1..Len(registerLog) :
         /\ i < j
         /\ registerLog[i].tool.Name = registerLog[j].tool.Name
         /\ registerLog[i].tool # registerLog[j].tool
         /\ ValidTool(registerLog[j].tool)
         /\ ~registerLog[i].err /\ registerLog[j].err
         /\ \E c \in RegCallers :
              /\ execs[c].op = "Execute" /\ execs[c].pc = "ret" /\ ~execs[c].err
              /\ execs[c].name = registerLog[i].tool.Name
              /\ execs[c].called = registerLog[i].tool.Handler

\* C31: over an unchanging store the pages of list_migrations for offsets
\* 0, L, 2L, ... contain every migration id exactly once, for every limit,
\* sort_by and sort_order.
RECURSIVE Flatten(_)
Flatten(ps) == IF ps = <<>> THEN <<>> ELSE Head(ps) \o Flatten(Tail(ps))

Occurrences(ms, id) == Cardinality({i \in 1..Len(ms) : ms[i].MigrationID = id})

C31_PagesEnumerateOnce ==
    (listing.active /\ ListingDone /\ listing.status = NoFilter)
       => \A id \in IDs :
            Occurrences(Flatten(listing.pages), id) = IF HasRow(migrations, id) THEN 1 ELSE 0

\* C38: every entry of list_migrations shows the durable state of its
\* migration, with or without a checkpoint, and with a status filter every
\* entry shows the status asked for.
C38_EntriesShowDurableState ==
    \A i \in 1..Len(listing.pages) : \A j \in 1..Len(listing.pages[i]) :
       LET e == listing.pages[i][j]
       IN  /\ e.Status = RowState(migrations, e.MigrationID)
           /\ listing.status \in MigrationStates => e.Status = listing.status

\* C32: when the context given to Server.Start is cancelled, the Stop call
\* made for the cancellation acquires s.mu, so that Shutdown runs and Start
\* returns: it never waits for s.mu while the holder of s.mu is a Start that
\* itself waits in ListenAndServe for that Shutdown.
WaitsForShutdown(t) == life[t].pc = "serve" /\ httpServer = "serving"

C32_StopAcquiresMutex ==
    \A w \in Watchers :
       life[w].pc = "stoplock" => ~(\E t \in Starters : mu = t /\ WaitsForShutdown(t))

\* C33: once the worker of a started migration has exited (after completion,
\* failure, stop or pause) the durable state of the migration, which
\* migration_status reports, is terminal and not in_progress.
TerminalStates == {StateCompleted, StateFailed, StateRolledBack}

\* the last live worker returns, every store write it made having succeeded
LastWorkerExits(w) ==
    /\ WorkerDefer(w)
    /\ crashes = 0
    /\ LiveWorkers = {w}
    /\ ~workers[w].storeErr
    /\ workers[w].exit = "failed" => workers[w].failWritten

C33_ExitedWorkerLeavesTerminalState ==
    [][\A w \in 1..MaxStarts :
         LastWorkerExits(w) => GetState(dbState', OwnID) \in TerminalStates]_vars

\* C34: a Start that returns the error of the initial SaveCheckpoint leaves no
\* run behind: the orchestrator is not marked running and its status is not
\* in_progress.
StartFails == StartStep /\ nStarts' = nStarts

C34_FailedStartLeavesNoRun ==
    [][StartFails => (~isRunning' /\ status' # "in_progress")]_vars

\* C37: within one run the cursor of the durable checkpoint never moves
\* backwards: a checkpoint written by the worker, the final one of complete
\* included, records the cursor of the previous one or a later id.
WorkerSavesCheckpoint ==
    /\ \E w \in 1..MaxStarts : WorkerProgress(w) \/ WorkerComplete(w)
    /\ dbCheckpoint'[OwnID] # dbCheckpoint[OwnID]

C37_CursorNeverMovesBack ==
    [][(nStarts = 1 /\ crashes = 0 /\ WorkerSavesCheckpoint)
         => dbCheckpoint'[OwnID].last >= dbCheckpoint[OwnID].last]_vars

EndedStatuses == {"completed", "stopped"} \cup FailedStatuses

C36_MonitorEndsWithMigration ==
    monitor.pc = "polling" => monitor.seen \notin EndedStatuses

\* C35: o.mu is held only to read or update fields in memory, never while a
\* source read, a target write or a state-store write is in progress.
CallerIO == {"saveCheckpoint", "setState"}
WorkerIO == {"stats", "getBatch", "upsert", "saveCheckpoint", "completeSave",
             "completeSetState", "failSetState"}

C35_NoLockAcrossIO ==
    /\ \A c \in LockCallers : lockCallers[c].pc \in CallerIO => omu # CallerId(c)
    /\ \A w \in 1..MaxLockStarts : lockWorkers[w].pc \in WorkerIO => omu # WorkerId(w)

\* C40: no interleaving of Start, Pause, Resume, Stop, Rollback, GetStatus
\* and the workers deadlocks on o.mu: whoever holds the lock is inside a
\* critical section whose next step releases it or continues its store
\* call, never a goroutine that has left the section or waits for the lock
\* again, and while a call or a worker is unfinished some goroutine can step.
HoldsInSection ==
    \/ \E c \in LockCallers : omu = CallerId(c) /\ lockCallers[c].pc \in {"saveCheckpoint", "setState"}
    \/ \E w \in 1..MaxLockStarts :
          omu = WorkerId(w) /\ lockWorkers[w].pc \in {"saveCheckpoint", "completeSave",
                                                       "completeSetState", "failSetState"}

Unfinished ==
    \/ \E c \in LockCallers : lockCallers[c].pc # "idle"
    \/ \E w \in 1..MaxLockStarts : lockWorkers[w].pc \notin {"idle", "done"}

C40_NoLockDeadlock ==
    /\ omu # Unlocked => HoldsInSection
    /\ Unfinished => ENABLED LockStep

\* the checkpoint of a batch failed, the worker released o.mu, entered fail
\* and took o.mu again, while an API call waits for the lock
C40_Witness ==
    \E w \in 1..MaxLockStarts, c \in LockCallers :
       /\ lockWorkers[w].pc = "failSetState"
       /\ lockWorkers[w].reason = "failed to save checkpoint"
       /\ omu = WorkerId(w)
       /\ lockCallers[c].pc = "lock"

====
